---- MODULE Spec2Model ----
(***************************************************************************)
(* Coinche rule engine and ISMCTS search of retdop/coinche.                *)
(*                                                                         *)
(* The repository holds two variants of the program: the package           *)
(* src/coinche/{card,coinche,ismcts}.py ("package") and the single file    *)
(* src/ismcts.py ("mono").  The variable `variant` says which one runs.    *)
(*                                                                         *)
(* A card is its index 8 * suit + (rank - 7) (card.py line 39): cards are  *)
(* compared by rank and suit only (Card.__eq__), which is equality of the  *)
(* index.  Suits 0..3 stand for the list ['S', 'D', 'H', 'C'] of card.py   *)
(* line 22, ranks are 7..14.                                               *)
(***************************************************************************)
EXTENDS Integers, Sequences, FiniteSets, TLC

\* ---------------------------------------------------------------- bounds
\* Number of shuffle outcomes of the deal that are explored.
NumDeals == 1
\* Every legal card is explored while fewer than FreeEarly cards have been
\* played in the round, and again once at most FreeLate cards are left in
\* the hands; in between the play follows the first card of get_moves().
FreeEarly == 3
FreeLate == 6
\* clone_and_randomize is explored in the states where the players other
\* than the observer hold at most MaxUnseen cards (every permutation of them).
MaxUnseen == 3

\* ismcts runs at most MaxIter iterations (the argument itermax of the call)
MaxIter == 3

\* In each state do_move is tried with NumIllegal of the cards that the
\* player to move does not hold.
NumIllegal == 2

\* ------------------------------------------------------------- card.py
number_of_players == 4
HandSize == 8
NumRanks == 8
MinRank == 7
DeDer == 10

Players == 0 .. (number_of_players - 1)

suits == 0 .. 3

ranks == MinRank .. (MinRank + NumRanks - 1)

atout_values ==
    [r \in ranks |-> CASE r = 11 -> 20 [] r = 9 -> 14 [] r = 14 -> 11 [] r = 10 -> 10
                       [] r = 13 -> 4 [] r = 12 -> 3 [] r = 8 -> 0 [] r = 7 -> 0]

non_atout_values ==
    [r \in ranks |-> CASE r = 14 -> 11 [] r = 10 -> 10 [] r = 13 -> 4 [] r = 12 -> 3
                       [] r = 11 -> 2 [] r = 9 -> 0 [] r = 8 -> 0 [] r = 7 -> 0]

Card(rank, suit) == NumRanks * suit + (rank - MinRank)

rank_of(card) == MinRank + (card % NumRanks)

suit_of(card) == card \div NumRanks

\* value without the trump table
value_plain(card, atout) == non_atout_values[rank_of(card)]

value(card, atout) ==
    IF suit_of(card) = atout THEN atout_values[rank_of(card)]
                             ELSE non_atout_values[rank_of(card)]

\* ------------------------------------------------------ list helpers
\* [x for x in s if Test(x)]
Filter(s, Test(_)) == SelectSeq(s, Test)

\* list.remove taking the first card of the hand, whatever was played
RemoveHead(s, x) == Tail(s)

\* list.remove(x): drops the first element equal to x (x is in s)
RECURSIVE Remove(_, _)
Remove(s, x) ==
    IF s = <<>> THEN <<>>
    ELSE IF Head(s) = x THEN Tail(s)
    ELSE <<Head(s)>> \o Remove(Tail(s), x)

InSeq(x, s) == \E i \in 1 .. Len(s) : s[i] = x

RECURSIVE SumSeq(_)
SumSeq(s) == IF s = <<>> THEN 0 ELSE Head(s) + SumSeq(Tail(s))

\* sorted(s, key=...) on a list of <<key, element>> pairs: Python's sort is
\* stable, so x goes behind every element whose key is not greater than its own.
RECURSIVE InsertByKey(_, _)
InsertByKey(s, x) ==
    IF s = <<>> THEN <<x>>
    ELSE IF Head(s)[1] <= x[1] THEN <<Head(s)>> \o InsertByKey(Tail(s), x)
    ELSE <<x>> \o s

RECURSIVE SortPairs(_)
SortPairs(s) ==
    IF s = <<>> THEN <<>>
    ELSE InsertByKey(SortPairs(SubSeq(s, 1, Len(s) - 1)), s[Len(s)])

sorted(s, Key(_)) ==
    LET keyed == SortPairs([i \in 1 .. Len(s) |-> <<Key(s[i]), s[i]>>])
    IN  [i \in 1 .. Len(s) |-> keyed[i][2]]

\* ---------------------------------------------------------- coinche.py
get_card_deck ==
    [i \in 1 .. (NumRanks * 4) |-> Card(MinRank + ((i - 1) \div 4), (i - 1) % 4)]

sort_hand(hand) ==
    Filter(hand, LAMBDA c : suit_of(c) = 0) \o Filter(hand, LAMBDA c : suit_of(c) = 1)
        \o Filter(hand, LAMBDA c : suit_of(c) = 2) \o Filter(hand, LAMBDA c : suit_of(c) = 3)

\* One outcome of random.shuffle(deck), hand by hand (8 cards per player):
\*   P0  8S 10S | 7D 8D 10D KD | 10H | KC
\*   P1  QS | AD 9D JD QD | KH AH | AC
\*   P2  JS KS AS | JH QH 7H | 7C 8C
\*   P3  9S 7S | 9H 8H | 9C 10C JC QC
BaseShuffle ==
    << Card(8, 0), Card(10, 0), Card(7, 1), Card(8, 1), Card(10, 1), Card(13, 1),
       Card(10, 2), Card(13, 3),
       Card(12, 0), Card(14, 1), Card(9, 1), Card(11, 1), Card(12, 1), Card(13, 2),
       Card(14, 2), Card(14, 3),
       Card(11, 0), Card(13, 0), Card(14, 0), Card(11, 2), Card(12, 2), Card(7, 2),
       Card(7, 3), Card(8, 3),
       Card(9, 0), Card(7, 0), Card(9, 2), Card(8, 2), Card(9, 3), Card(10, 3),
       Card(11, 3), Card(12, 3) >>

\* random.shuffle(deck): outcome k of the shuffle, a permutation of the deck.
\* Outcome 1 is BaseShuffle; outcome k reads it through the bijection
\* i |-> (2k-1) * i + 5 * (k-1) mod 32 (the multiplier is odd).
shuffle(deck, k) ==
    [i \in 1 .. Len(deck) |->
        LET c == BaseShuffle[(((2 * k - 1) * (i - 1) + 5 * (k - 1)) % Len(deck)) + 1]
        IN  deck[CHOOSE j \in 1 .. Len(deck) : deck[j] = c]]

\* get_next_player passing the turn to the right: (p - 1) modulo the players
get_next_player_right(p) == (p + 3) % number_of_players

\* Coinche.get_next_player
get_next_player(p) == (p + 1) % number_of_players

\* Coinche.__init__ with random_deal (package) or deal (mono): `k` is the
\* outcome of the shuffle, `first` of randint(0, 3), `trump` of random.choice.
\* `shared` names the attributes whose list or dict object is also an
\* attribute of another Coinche; a new object shares none.
NewCoinche(v, k, first, trump) ==
    LET deck == shuffle(get_card_deck, k) IN
    [ player_to_move |-> IF v = "package" THEN first ELSE 0,
      player_hands   |-> [p \in Players |->
                            sort_hand(SubSeq(deck, HandSize * p + 1, HandSize * p + HandSize))],
      atout          |-> trump,
      current_cards  |-> <<>>,
      current_round  |-> 1,
      current_scores |-> <<0, 0>>,
      scores         |-> <<0, 0>>,
      attrs          |-> IF v = "package" THEN {"move_history"} ELSE {},
      shared         |-> {} ]

\* current_scores and scores are Python lists indexed 0 and 1
Team(player) == (player % 2) + 1

\* score without the 10 points of the last trick
score_no_der(st) ==
    SumSeq([i \in 1 .. Len(st.current_cards) |-> value(st.current_cards[i][2], st.atout)])

score(st) ==
    SumSeq([i \in 1 .. Len(st.current_cards) |-> value(st.current_cards[i][2], st.atout)])
        + (IF Len(st.player_hands[st.player_to_move]) = 0 THEN DeDer ELSE 0)

\* get_trick_winner looking at the lead suit only
get_trick_winner_lead_only(st) ==
    LET lead_card    == st.current_cards[1][2]
        suited_plays == Filter(st.current_cards, LAMBDA m : suit_of(m[2]) = suit_of(lead_card))
        sorted_plays == sorted(suited_plays, LAMBDA m : value(m[2], st.atout))
    IN  sorted_plays[Len(sorted_plays)][1]

get_trick_winner(st) ==
    LET lead_card    == st.current_cards[1][2]
        atout_plays  == Filter(st.current_cards, LAMBDA m : suit_of(m[2]) = st.atout)
        suited_plays == Filter(st.current_cards, LAMBDA m : suit_of(m[2]) = suit_of(lead_card))
        sorted_plays == IF atout_plays # <<>>
                        THEN sorted(atout_plays, LAMBDA m : value(m[2], st.atout))
                        ELSE sorted(suited_plays, LAMBDA m : value(m[2], st.atout))
    IN  sorted_plays[Len(sorted_plays)][1]

\* get_moves with the trump test ahead of the follow-suit test
get_moves_trump_first(st) ==
    LET hand == st.player_hands[st.player_to_move] IN
    IF Len(st.current_cards) = 0 THEN hand
    ELSE
      LET lead_card      == st.current_cards[1][2]
          cards_in_suit  == Filter(hand, LAMBDA c : suit_of(c) = suit_of(lead_card))
          cards_in_atout == Filter(hand, LAMBDA c : suit_of(c) = st.atout)
      IN  IF cards_in_atout # <<>> THEN cards_in_atout
          ELSE IF cards_in_suit # <<>> THEN cards_in_suit
          ELSE hand

\* get_moves returning the overtrumping cards even when there are none
get_moves_empty_overtrump(st) ==
    LET hand == st.player_hands[st.player_to_move] IN
    IF Len(st.current_cards) = 0 THEN hand
    ELSE
      LET lead_card      == st.current_cards[1][2]
          played         == [i \in 1 .. Len(st.current_cards) |-> st.current_cards[i][2]]
          atout_played   == Filter(played, LAMBDA c : suit_of(c) = st.atout)
          cards_in_suit  == Filter(hand, LAMBDA c : suit_of(c) = suit_of(lead_card))
          cards_in_atout == Filter(hand, LAMBDA c : suit_of(c) = st.atout)
      IN  IF cards_in_suit # <<>> THEN cards_in_suit
          ELSE IF cards_in_atout # <<>>
               THEN IF atout_played = <<>> THEN cards_in_atout
                    ELSE Filter(cards_in_atout,
                                LAMBDA c : \A i \in 1 .. Len(atout_played) :
                                    value(c, st.atout) > value(atout_played[i], st.atout))
          ELSE hand

\* get_moves of the package: follow suit, else trump and overtrump, else any
get_moves(st) ==
    LET hand == st.player_hands[st.player_to_move] IN
    IF Len(st.current_cards) = 0 THEN hand
    ELSE
      LET lead_card      == st.current_cards[1][2]
          played         == [i \in 1 .. Len(st.current_cards) |-> st.current_cards[i][2]]
          atout_played   == Filter(played, LAMBDA c : suit_of(c) = st.atout)
          sorted_atout_played == sorted(atout_played, LAMBDA c : value(c, st.atout))
          cards_in_suit  == Filter(hand, LAMBDA c : suit_of(c) = suit_of(lead_card))
          cards_in_atout == Filter(hand, LAMBDA c : suit_of(c) = st.atout)
          better_atout_cards ==
              Filter(cards_in_atout,
                     LAMBDA c : value(c, st.atout) >
                                value(sorted_atout_played[Len(sorted_atout_played)], st.atout))
      IN  IF cards_in_suit # <<>> THEN cards_in_suit
          ELSE IF cards_in_atout # <<>>
               THEN IF Len(sorted_atout_played) = 0 THEN cards_in_atout
                    ELSE IF Len(better_atout_cards) # 0 THEN better_atout_cards
                    ELSE cards_in_atout
          ELSE hand

\* get_moves of the single file returning no card to a player who can neither
\* follow suit nor trump
get_moves_mono_no_discard(st) ==
    LET hand == st.player_hands[st.player_to_move] IN
    IF Len(st.current_cards) = 0 THEN hand
    ELSE
      LET lead_card      == st.current_cards[1][2]
          cards_in_suit  == Filter(hand, LAMBDA c : suit_of(c) = suit_of(lead_card))
          cards_in_atout == Filter(hand, LAMBDA c : suit_of(c) = st.atout)
      IN  IF cards_in_suit # <<>> THEN cards_in_suit
          ELSE cards_in_atout

\* get_moves of the single file: follow suit, else trump, else any
get_moves_mono(st) ==
    LET hand == st.player_hands[st.player_to_move] IN
    IF Len(st.current_cards) = 0 THEN hand
    ELSE
      LET lead_card      == st.current_cards[1][2]
          cards_in_suit  == Filter(hand, LAMBDA c : suit_of(c) = suit_of(lead_card))
          cards_in_atout == Filter(hand, LAMBDA c : suit_of(c) = st.atout)
      IN  IF cards_in_suit # <<>> THEN cards_in_suit
          ELSE IF cards_in_atout # <<>> THEN cards_in_atout
          ELSE hand

\* The statements of do_move that both variants share (coinche.py 208-228,
\* src/ismcts.py 254-275).  The result is the state the call leaves behind
\* and the exception it raised, if any: list.remove raises ValueError for a
\* card that is not in the hand, after the card was put into the trick.
\* append, remove and += change the list objects in place: `objs` holds what
\* the objects that were self's attributes at the call contain at the end.
\* Line 228 binds current_cards to a new list, which self shares with nobody.
play_card(st, move) ==
    LET mover == st.player_to_move
        s1 == [st EXCEPT !.current_cards =
                   IF Len(st.current_cards) < 4
                   THEN Append(st.current_cards, <<mover, move>>)
                   ELSE << <<mover, move>> >>]
    IN
    IF ~InSeq(move, st.player_hands[mover])
    THEN [st |-> s1, exc |-> "ValueError", objs |-> s1]
    ELSE
      LET s2 == [s1 EXCEPT !.player_hands[mover] = Remove(st.player_hands[mover], move),
                           !.player_to_move = get_next_player(mover)]
      IN
      IF Len(s2.current_cards) > 3
      THEN LET trick_winner == get_trick_winner(s2)
               s3 == [s2 EXCEPT !.player_to_move = trick_winner]
               s4 == [s3 EXCEPT !.current_scores[Team(trick_winner)] = @ + score(s3)]
           IN  [st   |-> [s4 EXCEPT !.current_cards = <<>>,
                                    !.shared = @ \ {"current_cards"}],
                exc  |-> "none",
                objs |-> s4]
      ELSE [st |-> s2, exc |-> "none", objs |-> s2]

\* do_move of the package: line 206 appends to self.moves_history first
do_move(st, move) ==
    IF "moves_history" \notin st.attrs
    THEN [st |-> st, exc |-> "AttributeError", objs |-> st]
    ELSE play_card(st, move)

\* do_move of the single file with the ValueError of list.remove swallowed
do_move_mono_silent(st, move) == [play_card(st, move) EXCEPT !.exc = "none"]

\* do_move of the single file
do_move_mono(st, move) == play_card(st, move)

\* state.get_moves() and state.do_move(m) as the running variant binds them
legal_moves(v, st) == IF v = "package" THEN get_moves(st) ELSE get_moves_mono(st)

apply_move(v, st, move) == IF v = "package" THEN do_move(st, move) ELSE do_move_mono(st, move)

\* clone without deepcopy: the clone's dict and lists are self's
clone_no_deepcopy(v, st) ==
    [NewCoinche(v, 1, 0, 0) EXCEPT
        !.player_to_move = st.player_to_move,
        !.player_hands   = st.player_hands,
        !.atout          = st.atout,
        !.current_cards  = st.current_cards,
        !.current_round  = st.current_round,
        !.current_scores = st.current_scores,
        !.scores         = st.scores,
        !.shared         = {"player_hands", "current_cards", "current_scores", "scores"}]

\* Coinche.clone: a new Coinche (its own deal is overwritten field by field).
\* The dict and the lists are deep copies, so the clone shares none of them
\* with self; the other attributes are immutable values.
clone(v, st) ==
    [NewCoinche(v, 1, 0, 0) EXCEPT
        !.player_to_move = st.player_to_move,
        !.player_hands   = st.player_hands,
        !.atout          = st.atout,
        !.current_cards  = st.current_cards,
        !.current_round  = st.current_round,
        !.current_scores = st.current_scores,
        !.scores         = st.scores]

\* unseen_cards += st.player_hands[p] for p = 0 .. 3, p != observer
RECURSIVE UnseenFrom(_, _, _)
UnseenFrom(st, observer, p) ==
    IF p >= number_of_players THEN <<>>
    ELSE (IF p # observer THEN st.player_hands[p] ELSE <<>>)
            \o UnseenFrom(st, observer, p + 1)

\* the orders in which random.shuffle can leave the positions in S
RECURSIVE Orders(_)
Orders(S) ==
    IF S = {} THEN {<<>>}
    ELSE UNION {{<<x>> \o r : r \in Orders(S \ {x})} : x \in S}

\* the outcomes of random.shuffle on a list of n elements
ShuffleOutcomes(n) == Orders(1 .. n)

\* the dealing loop without line 115: unseen_cards is never shortened
RECURSIVE DealUnseen_no_advance(_, _, _, _, _)
DealUnseen_no_advance(self, hands, observer, p, unseen_cards) ==
    IF p >= number_of_players THEN hands
    ELSE IF p = observer THEN DealUnseen_no_advance(self, hands, observer, p + 1, unseen_cards)
    ELSE LET num_cards == Len(self.player_hands[p]) IN
         DealUnseen_no_advance(self, [hands EXCEPT ![p] = SubSeq(unseen_cards, 1, num_cards)],
                               observer, p + 1, unseen_cards)

\* the loop of lines 107-115: player p takes the first len(self.player_hands[p])
\* cards of what is left of unseen_cards
RECURSIVE DealUnseen(_, _, _, _, _)
DealUnseen(self, hands, observer, p, unseen_cards) ==
    IF p >= number_of_players THEN hands
    ELSE IF p = observer THEN DealUnseen(self, hands, observer, p + 1, unseen_cards)
    ELSE LET num_cards == Len(self.player_hands[p]) IN
         DealUnseen(self, [hands EXCEPT ![p] = SubSeq(unseen_cards, 1, num_cards)],
                    observer, p + 1,
                    SubSeq(unseen_cards, num_cards + 1, Len(unseen_cards)))

\* clone_and_randomize pooling the cards of all four players
clone_and_randomize_pool_all(v, self, observer, perm) ==
    LET st       == clone(v, self)
        unseen   == UnseenFrom(st, number_of_players, 0)
        shuffled == [i \in 1 .. Len(perm) |-> unseen[perm[i]]]
    IN  [st EXCEPT !.player_hands = DealUnseen(self, st.player_hands, observer, 0, shuffled)]

\* Coinche.clone_and_randomize; perm is the outcome of random.shuffle
clone_and_randomize(v, self, observer, perm) ==
    LET st       == clone(v, self)
        unseen   == UnseenFrom(st, observer, 0)
        shuffled == [i \in 1 .. Len(unseen) |-> unseen[perm[i]]]
    IN  [st EXCEPT !.player_hands = DealUnseen(self, st.player_hands, observer, 0, shuffled)]

\* What the object `other` contains after a do_move on the object `self`
\* that returned r, when self shares the attributes self.shared with other
written_through(other, self, r) ==
    [other EXCEPT
        !.player_hands   = IF "player_hands" \in self.shared THEN r.objs.player_hands ELSE @,
        !.current_cards  = IF "current_cards" \in self.shared THEN r.objs.current_cards ELSE @,
        !.current_scores = IF "current_scores" \in self.shared THEN r.objs.current_scores ELSE @]

\* What self contains after self.clone_and_randomize(observer): line 113
\* assigns into the dict of the clone, which is self's dict if they share it
after_randomize(v, self, observer, perm) ==
    IF "player_hands" \in clone(v, self).shared
    THEN [self EXCEPT !.player_hands = clone_and_randomize(v, self, observer, perm).player_hands]
    ELSE self

\* ------------------------------------------------------------ ismcts.py
\* Python's None, for Node.move and Node.player_just_moved
None == -1

\* Node.__init__ with self.avails = 0 in place of line 33
Node_avails_0(move, parent, player_just_moved) ==
    [ move              |-> move,
      parentNode        |-> parent,
      child_nodes       |-> <<>>,
      wins              |-> 0,
      visits            |-> 0,
      avails            |-> 0,
      player_just_moved |-> player_just_moved ]

\* Node.__init__
Node(move, parent, player_just_moved) ==
    [ move              |-> move,
      parentNode        |-> parent,
      child_nodes       |-> <<>>,
      wins              |-> 0,
      visits            |-> 0,
      avails            |-> 1,
      player_just_moved |-> player_just_moved ]

\* get_untried_moves that takes the untried moves from the whole pack instead
\* of from the legal moves it is given
get_untried_moves_any(t, n, moves) ==
    LET tried_moves == [j \in 1 .. Len(t[n].child_nodes) |-> t[t[n].child_nodes[j]].move]
    IN  Filter([j \in 1 .. 32 |-> j - 1], LAMBDA move : ~InSeq(move, tried_moves))

\* get_untried_moves without the filter of line 44: every legal move
get_untried_moves_all(t, n, moves) == moves

\* Node.get_untried_moves of node n of the tree t
get_untried_moves(t, n, moves) ==
    LET tried_moves == [j \in 1 .. Len(t[n].child_nodes) |-> t[t[n].child_nodes[j]].move]
    IN  Filter(moves, LAMBDA move : ~InSeq(move, tried_moves))

\* ucb_select_child, line 53: the children of n whose move is legal
legal_children(t, n, moves) ==
    Filter(t[n].child_nodes, LAMBDA child : InSeq(t[child].move, moves))

\* The UCB score of line 57 is wins/visits + 0.7 * sqrt(log(avails)/visits).
\* Child c scores at least as much as child d whenever its win ratio is not
\* smaller, its avails are not smaller and its visits are not larger; the
\* score is strictly larger when one of the three is strict (and the
\* logarithm is not 0).
ucb_not_below(t, c, d) ==
    /\ t[c].wins * t[d].visits >= t[d].wins * t[c].visits
    /\ t[c].avails >= t[d].avails
    /\ t[c].visits <= t[d].visits

ucb_above(t, c, d) ==
    /\ ucb_not_below(t, c, d)
    /\ \/ t[c].wins * t[d].visits > t[d].wins * t[c].visits
       \/ t[c].avails > t[d].avails
       \/ t[c].visits < t[d].visits /\ t[c].avails > 1

\* get_result divides the score by 162. in the package (coinche.py line 274)
\* and by nothing in the single file (src/ismcts.py line 310)
ResultDen(v) == IF v = "package" THEN 162 ELSE 1

\* math.log(a) times 10000, rounded down and rounded up
LnLo(a) == IF a <= 1 THEN 0
           ELSE IF a >= 8 THEN 20794
           ELSE <<6931, 10986, 13862, 16094, 17917, 19459>>[a - 1]

LnHi(a) == IF a <= 1 THEN 0
           ELSE IF a > 8 THEN 10000 * a
           ELSE <<6932, 10987, 13863, 16095, 17918, 19460, 20795>>[a - 1]

\* the integer part of the square root of x, searched between lo and hi
\* (lo * lo <= x < hi * hi, hi small enough for hi * hi to fit
\* a 32-bit integer)
RECURSIVE isqrt_between(_, _, _)
isqrt_between(x, lo, hi) ==
    IF hi - lo <= 1 THEN lo
    ELSE LET mid == (lo + hi) \div 2
         IN  IF mid * mid <= x THEN isqrt_between(x, mid, hi) ELSE isqrt_between(x, lo, mid)

isqrt(x) == isqrt_between(x, 0, IF x < 46340 THEN x + 1 ELSE 46340)

\* The score of line 57 in thousandths, rounded down and rounded up:
\* wins/visits is wins / (visits * ResultDen) in the units wins is held in,
\* and (0.7 * sqrt(log(avails)/visits))^2 * 10^6 = 49 * (log(avails) * 10^4) / visits.
score_lo(t, c, v) ==
    (t[c].wins * 1000) \div (t[c].visits * ResultDen(v))
      + isqrt((49 * LnLo(t[c].avails)) \div t[c].visits)

score_hi(t, c, v) ==
    (t[c].wins * 1000) \div (t[c].visits * ResultDen(v)) + 1
      + isqrt((49 * LnHi(t[c].avails)) \div t[c].visits + 1) + 1

\* child c scores more than child d by the roundings above
ucb_surely_above(t, c, d, v) == score_lo(t, c, v) > score_hi(t, d, v)

\* ucb_select_child choosing any legal child
any_legal_child(t, n, moves, v) ==
    LET lc == legal_children(t, n, moves) IN {lc[k] : k \in 1 .. Len(lc)}

\* max(legal_children, key = score) returns the first child of maximal score.
\* The candidates are the legal children that the comparisons above do not
\* rule out: none scores strictly more, and none that comes earlier in the
\* list scores at least as much.  Where the comparisons decide, the choice is
\* the code's; where they do not, every remaining child is a possible choice.
ucb_candidates(t, n, moves, v) ==
    LET lc == legal_children(t, n, moves) IN
    {lc[k] : k \in {k \in 1 .. Len(lc) :
        ~ \E j \in 1 .. Len(lc) :
              /\ j # k
              /\ \/ ucb_above(t, lc[j], lc[k])
                 \/ ucb_surely_above(t, lc[j], lc[k], v)
                 \/ j < k /\ ucb_not_below(t, lc[j], lc[k])}}

\* ucb_select_child without the loop of lines 60-61
update_avails_none(t, n, moves) == t

\* lines 60-61 with child.avails += 2
update_avails_twice(t, n, moves) ==
    [c \in 1 .. Len(t) |->
        IF \E j \in 1 .. Len(t[n].child_nodes) : t[n].child_nodes[j] = c /\ InSeq(t[c].move, moves)
        THEN [t[c] EXCEPT !.avails = @ + 2] ELSE t[c]]

\* ucb_select_child, lines 60-61: child.avails += 1 for every legal child
update_avails(t, n, moves) ==
    LET lc == legal_children(t, n, moves) IN
    [c \in 1 .. Len(t) |-> IF InSeq(c, lc) THEN [t[c] EXCEPT !.avails = @ + 1] ELSE t[c]]

\* add_child recording the player after p instead of p
add_child_next_player(t, n, m, p) ==
    Append([t EXCEPT ![n].child_nodes = Append(@, Len(t) + 1)], Node(m, n, get_next_player(p)))

\* Node.add_child: the new node is the last of the tree
add_child(t, n, m, p) ==
    Append([t EXCEPT ![n].child_nodes = Append(@, Len(t) + 1)], Node(m, n, p))

\* get_result(player): the round score of the player's team.  The package
\* divides it by 162. (coinche.py line 274), the single file does not
\* (src/ismcts.py line 310); wins holds the sum of the scores, which in the
\* package is the numerator of the sum over the common denominator 162.
get_result(st, player) == st.current_scores[Team(player)]

\* Node.update without the line self.visits += 1
update_wins_only(t, n, terminal_state) ==
    [t EXCEPT ![n].wins = IF t[n].player_just_moved # None
                          THEN @ + get_result(terminal_state, t[n].player_just_moved)
                          ELSE @]

\* Node.update
update(t, n, terminal_state) ==
    [t EXCEPT ![n].visits = @ + 1,
              ![n].wins   = IF t[n].player_just_moved # None
                            THEN @ + get_result(terminal_state, t[n].player_just_moved)
                            ELSE @]

\* lines 144-146 updating every node of the tree instead of the ancestors of n
backpropagate_every(t, n, terminal_state) ==
    [c \in 1 .. Len(t) |-> update(t, c, terminal_state)[c]]

\* ismcts, lines 144-146: update node and its ancestors up to the root
RECURSIVE backpropagate(_, _, _)
backpropagate(t, n, terminal_state) ==
    IF n = 0 THEN t
    ELSE backpropagate(update(t, n, terminal_state), t[n].parentNode, terminal_state)

\* line 154 returning the move of the first root child of maximal wins/visits
best_ratio(t) ==
    LET cs == t[1].child_nodes
        k  == CHOOSE k \in 1 .. Len(cs) :
                 /\ \A j \in 1 .. Len(cs) :
                       t[cs[j]].wins * t[cs[k]].visits <= t[cs[k]].wins * t[cs[j]].visits
                 /\ \A j \in 1 .. (k - 1) :
                       t[cs[j]].wins * t[cs[k]].visits < t[cs[k]].wins * t[cs[j]].visits
    IN  t[cs[k]].move

\* line 154 returning the move of the most visited node below the root's
\* children when there is one
most_visited_below(t) ==
    LET deep == {n \in 2 .. Len(t) : t[n].parentNode > 1}
    IN  IF deep = {} THEN t[t[1].child_nodes[1]].move
        ELSE t[CHOOSE n \in deep : \A d \in deep : t[d].visits <= t[n].visits].move

\* ismcts, line 154: the move of the first root child of maximal visits
most_visited(t) ==
    LET cs == t[1].child_nodes
        k  == CHOOSE k \in 1 .. Len(cs) :
                 /\ \A j \in 1 .. Len(cs) : t[cs[j]].visits <= t[cs[k]].visits
                 /\ \A j \in 1 .. (k - 1) : t[cs[j]].visits < t[cs[k]].visits
    IN  t[cs[k]].move

\* -------------------------------------------------------------- state
VARIABLES
    variant,     \* which program runs: "package" or "mono"
    state,       \* the Coinche object of play_game
    exc,         \* the exception that ended the program, or "none"
    pre,         \* the Coinche object as it was before the last do_move
    last_move,   \* the card of the last do_move, -1 before the first
    det,         \* <<[observer, st]>>: the last call state.clone_and_randomize(observer)
                 \* and the state st it returned; <<>> when the last step was no such call
    pc,          \* where play_game stands: "play" (line 162), inside ismcts at the
                 \* head of the for loop ("iter"), in the select loop ("select"), in
                 \* the simulate loop ("simulate"), or back with the move m ("move")
    itermax,     \* ismcts: the argument itermax
    iter,        \* ismcts: the loop variable i, the number of iterations completed
    tree,        \* ismcts: the Node objects, rootnode first; a node is named by
                 \* its index, parentNode 0 is None
    node,        \* ismcts: the local variable node (an index into tree)
    search_state,\* ismcts: the local variable state, <<>> outside an iteration
    best,        \* play_game: the local variable m, the move ismcts returned
    applied      \* <<[move, to]>>: the last call st.do_move(move) of the current
                 \* iteration of ismcts and the state st it was made on; <<>> when
                 \* the iteration has made none

search_vars == <<pc, itermax, iter, tree, node, search_state, best, applied>>

vars == <<variant, state, exc, pre, last_move, det, search_vars>>

Variants == {"package", "mono"}

Init ==
    /\ variant \in Variants
    /\ \E k \in 1 .. NumDeals, first \in Players, trump \in suits :
          state = NewCoinche(variant, k, first, trump)
    /\ exc = "none"
    /\ pre = state
    /\ last_move = -1
    /\ det = <<>>
    /\ pc = "play"
    /\ itermax = 0
    /\ iter = 0
    /\ tree = <<>>
    /\ node = 0
    /\ search_state = <<>>
    /\ best = None
    /\ applied = <<>>

CardsLeft(st) == SumSeq([i \in 1 .. number_of_players |-> Len(st.player_hands[i - 1])])

\* The indices of get_moves() that the play explores in state st
Explored(v, st) ==
    LET n == Len(legal_moves(v, st)) IN
    IF (NumRanks * 4) - CardsLeft(st) < FreeEarly \/ CardsLeft(st) <= FreeLate
    THEN 1 .. n
    ELSE IF n = 0 THEN {} ELSE {1}

\* play_game: state.do_move(m) with a card m of state.get_moves()
DoMove ==
    /\ exc = "none"
    /\ \E i \in Explored(variant, state) :
          LET m == legal_moves(variant, state)[i]
              r == apply_move(variant, state, m)
          IN  /\ state' = r.st
              /\ exc' = r.exc
              /\ pre' = state
              /\ last_move' = m
    /\ det' = <<>>
    /\ UNCHANGED <<variant, search_vars>>

Next == DoMove

Spec == Init /\ [][Next]_vars

\* state.clone_and_randomize(observer), as ismcts calls it on the root state
Determinize ==
    /\ exc = "none"
    /\ det = <<>>
    /\ \E observer \in Players :
          LET n == Len(UnseenFrom(state, observer, 0)) IN
          /\ n >= 1 /\ n <= MaxUnseen
          /\ \E perm \in ShuffleOutcomes(n) :
                /\ det' = << [observer |-> observer,
                              st |-> clone_and_randomize(variant, state, observer, perm)] >>
                /\ state' = after_randomize(variant, state, observer, perm)
    /\ UNCHANGED <<variant, exc, pre, last_move, search_vars>>

NextDet == DoMove \/ Determinize

SpecDet == Init /\ [][NextDet]_vars

\* ------------------------------------------------- play_game with ismcts
\* the cards the player to move does not see
Unseen(st) == UnseenFrom(st, st.player_to_move, 0)

\* play_game, lines 162-170, for a state whose search is not enumerated
\* (more than MaxUnseen cards to shuffle): of the cards ismcts can return,
\* the first of get_moves() is played.
Advance ==
    /\ pc = "play" /\ exc = "none"
    /\ legal_moves(variant, state) # <<>>
    /\ Len(Unseen(state)) > MaxUnseen
    /\ LET m == legal_moves(variant, state)[1]
           r == apply_move(variant, state, m)
       IN  /\ state' = r.st
           /\ exc' = r.exc
           /\ pre' = state
           /\ last_move' = m
    /\ det' = <<>>
    /\ UNCHANGED <<variant, search_vars>>

\* A search from the root state st is explored with every outcome of its
\* random draws when at most MaxUnseen cards are to be shuffled.  The first
\* search of the game, from the deal, is explored with one outcome of each
\* draw: the shuffle that leaves the cards where they are, and the first
\* element for random.choice.
Enumerated(st) == Len(Unseen(st)) <= MaxUnseen

ShuffleDrawn(st) ==
    IF Enumerated(st) THEN ShuffleOutcomes(Len(Unseen(st)))
    ELSE {[k \in 1 .. Len(Unseen(st)) |-> k]}

ChoiceDrawn(st, n) == IF Enumerated(st) \/ n = 0 THEN 1 .. n ELSE {1}

\* play_game, line 168, and ismcts, line 112: the call ismcts(state, itermax)
\* on a non-terminal state, and rootnode = Node()
Search_Start ==
    /\ pc = "play" /\ exc = "none"
    /\ legal_moves(variant, state) # <<>>
    /\ Enumerated(state) \/ last_move = -1
    /\ itermax' \in 1 .. MaxIter
    /\ iter' = 0
    /\ tree' = << Node(None, 0, None) >>
    /\ node' = 0
    /\ pc' = "iter"
    /\ UNCHANGED <<variant, state, exc, pre, last_move, det, search_state, best, applied>>

\* ismcts, lines 114-119: the next iteration starts at the root with a
\* determinization for the player to move
Iter_Determinize ==
    /\ pc = "iter" /\ exc = "none"
    /\ iter < itermax
    /\ node' = 1
    /\ \E perm \in ShuffleDrawn(state) :
          /\ search_state' = clone_and_randomize(variant, state, state.player_to_move, perm)
          /\ state' = after_randomize(variant, state, state.player_to_move, perm)
    /\ pc' = "select"
    /\ applied' = <<>>
    /\ UNCHANGED <<variant, exc, pre, last_move, det, itermax, iter, tree, best>>

\* the condition of the while loop of lines 122-123
fully_expanded(t, n, st, v) ==
    /\ legal_moves(v, st) # <<>>
    /\ get_untried_moves(t, n, legal_moves(v, st)) = <<>>

\* ismcts, lines 124-126: one pass of the select loop
Iter_Select ==
    /\ pc = "select" /\ exc = "none"
    /\ fully_expanded(tree, node, search_state, variant)
    /\ \E s \in ucb_candidates(tree, node, legal_moves(variant, search_state), variant) :
          LET r == apply_move(variant, search_state, tree[s].move) IN
          /\ tree' = update_avails(tree, node, legal_moves(variant, search_state))
          /\ node' = s
          /\ search_state' = r.st
          /\ applied' = << [move |-> tree[s].move, to |-> search_state] >>
          /\ state' = written_through(state, search_state, r)
          /\ exc' = r.exc
    /\ UNCHANGED <<variant, pre, last_move, det, pc, itermax, iter, best>>

\* ismcts, lines 129-135: the select loop is left and the node expanded by
\* one of its untried moves, if it has any
Iter_Expand ==
    /\ pc = "select" /\ exc = "none"
    /\ ~ fully_expanded(tree, node, search_state, variant)
    /\ LET untried_moves == get_untried_moves(tree, node, legal_moves(variant, search_state))
       IN  IF untried_moves = <<>>
           THEN UNCHANGED <<tree, node, search_state, applied, state, exc>>
           ELSE \E k \in ChoiceDrawn(state, Len(untried_moves)) :
                  LET m      == untried_moves[k]
                      player == search_state.player_to_move
                      r      == apply_move(variant, search_state, m)
                  IN  /\ search_state' = r.st
                      /\ applied' = << [move |-> m, to |-> search_state] >>
                      /\ state' = written_through(state, search_state, r)
                      /\ exc' = r.exc
                      /\ IF r.exc = "none"
                         THEN /\ tree' = add_child(tree, node, m, player)
                              /\ node' = Len(tree) + 1
                         ELSE UNCHANGED <<tree, node>>
    /\ pc' = "simulate"
    /\ UNCHANGED <<variant, pre, last_move, det, itermax, iter, best>>

\* ismcts, lines 138-141: one pass of the simulate loop
Iter_Simulate ==
    /\ pc = "simulate" /\ exc = "none"
    /\ legal_moves(variant, search_state) # <<>>
    /\ \E k \in ChoiceDrawn(state, Len(legal_moves(variant, search_state))) :
          LET r == apply_move(variant, search_state, legal_moves(variant, search_state)[k])
          IN  /\ search_state' = r.st
              /\ applied' = << [move |-> legal_moves(variant, search_state)[k],
                                to |-> search_state] >>
              /\ state' = written_through(state, search_state, r)
              /\ exc' = r.exc
    /\ UNCHANGED <<variant, pre, last_move, det, pc, itermax, iter, tree, node, best>>

\* ismcts, lines 144-146 and back to line 114: the simulate loop is left,
\* the result is propagated to the root and the iteration is over.  The
\* terminal state is not read again.
Iter_Backpropagate ==
    /\ pc = "simulate" /\ exc = "none"
    /\ legal_moves(variant, search_state) = <<>>
    /\ tree' = backpropagate(tree, node, search_state)
    /\ node' = 0
    /\ search_state' = <<>>
    /\ applied' = <<>>
    /\ iter' = iter + 1
    /\ pc' = "iter"
    /\ UNCHANGED <<variant, state, exc, pre, last_move, det, itermax, best>>

\* ismcts, line 154: after itermax iterations the most visited move is
\* returned; max() of an empty list raises ValueError
Search_Return ==
    /\ pc = "iter" /\ exc = "none"
    /\ iter = itermax
    /\ IF tree[1].child_nodes = <<>>
       THEN exc' = "ValueError" /\ UNCHANGED best
       ELSE best' = most_visited(tree) /\ UNCHANGED exc
    /\ pc' = "move"
    /\ UNCHANGED <<variant, state, pre, last_move, det, itermax, iter, tree, node, search_state,
                   applied>>

\* play_game, line 170: state.do_move(m); the objects of the search are gone
PlayBest ==
    /\ pc = "move" /\ exc = "none"
    /\ LET r == apply_move(variant, state, best)
       IN  /\ state' = r.st
           /\ exc' = r.exc
           /\ pre' = state
           /\ last_move' = best
    /\ det' = <<>>
    /\ pc' = "play"
    /\ itermax' = 0 /\ iter' = 0 /\ tree' = <<>> /\ node' = 0 /\ best' = None
    /\ UNCHANGED <<variant, search_state, applied>>

NextSearch ==
    \/ Advance
    \/ Search_Start
    \/ Iter_Determinize
    \/ Iter_Select
    \/ Iter_Expand
    \/ Iter_Simulate
    \/ Iter_Backpropagate
    \/ Search_Return
    \/ PlayBest

SpecSearch == Init /\ [][NextSearch]_vars

\* ------------------------------------------- do_move called with any card
\* the cards that are not in the hand of the player to move, the NumIllegal
\* lowest of them
NotInHand(st) ==
    LET out == {c \in 0 .. (NumRanks * 4 - 1) : ~InSeq(c, st.player_hands[st.player_to_move])}
    IN  {c \in out : Cardinality({d \in out : d < c}) < NumIllegal}

\* state.do_move(card) by a caller that does not ask get_moves(): the card
\* is not in the hand of the player to move
DoMoveNotInHand ==
    /\ pc = "play" /\ exc = "none"
    /\ \E card \in NotInHand(state) :
          LET r == apply_move(variant, state, card)
          IN  /\ state' = r.st
              /\ exc' = r.exc
              /\ pre' = state
              /\ last_move' = card
    /\ det' = <<>>
    /\ UNCHANGED <<variant, search_vars>>

NextAny == DoMove \/ DoMoveNotInHand

SpecAny == Init /\ [][NextAny]_vars

\* ===================================================== properties
SeqSet(s) == {s[i] : i \in 1 .. Len(s)}

HandSet(st, p) == SeqSet(st.player_hands[p])

TrickCards(st) == {st.current_cards[i][2] : i \in 1 .. Len(st.current_cards)}

LeadSuit(st) == suit_of(st.current_cards[1][2])

SuitCards(cards, s) == {c \in cards : suit_of(c) = s}

MaxValue(cards, atout) ==
    CHOOSE x \in {value(c, atout) : c \in cards} :
        \A c \in cards : value(c, atout) <= x

\* the last do_move returned normally
Moved == last_move # -1 /\ exc = "none"

\* the last do_move played the fourth card of a trick
TrickDone == Moved /\ Len(pre.current_cards) = 3

\* that trick, as it stood when get_trick_winner and score read it
DoneTrick == Append(pre.current_cards, <<pre.player_to_move, last_move>>)

DoneCards == {DoneTrick[i][2] : i \in 1 .. Len(DoneTrick)}

\* ---- C1: follow suit.  With a non-empty trick and a card of the lead suit
\* in the mover's hand, get_moves returns the mover's cards of the lead suit,
\* all of them and nothing else.
C1_FollowSuit ==
    LET mine == HandSet(state, state.player_to_move) IN
    (exc = "none" /\ state.current_cards # <<>>
        /\ SuitCards(mine, LeadSuit(state)) # {})
    => /\ \A i \in 1 .. Len(get_moves(state)) :
              suit_of(get_moves(state)[i]) = LeadSuit(state)
       /\ SeqSet(get_moves(state)) = SuitCards(mine, LeadSuit(state))
       /\ Len(get_moves(state)) = Cardinality(SuitCards(mine, LeadSuit(state)))

\* the mover must follow, holds trumps and other suits too, and the lead is
\* not the trump suit
C1_Witness ==
    LET mine == HandSet(state, state.player_to_move) IN
    /\ exc = "none" /\ state.current_cards # <<>>
    /\ LeadSuit(state) # state.atout
    /\ SuitCards(mine, LeadSuit(state)) # {}
    /\ SuitCards(mine, state.atout) # {}
    /\ Len(get_moves(state)) < Len(state.player_hands[state.player_to_move])

\* ---- C2: must trump, must overtrump.  With a non-empty trick, no card of
\* the lead suit and at least one trump in the mover's hand, get_moves
\* returns trumps of the hand only: those that beat the best trump of the
\* trick when a trump was played and such cards exist, all of them otherwise.
C2_Overtrump ==
    LET mine   == HandSet(state, state.player_to_move)
        trumps == SuitCards(mine, state.atout)
        played == SuitCards(TrickCards(state), state.atout)
        over   == {c \in trumps :
                     value(c, state.atout) > MaxValue(played, state.atout)}
        moves  == get_moves(state)
    IN
    (exc = "none" /\ state.current_cards # <<>>
        /\ SuitCards(mine, LeadSuit(state)) = {} /\ trumps # {})
    => /\ moves # <<>>
       /\ Len(moves) = Cardinality(SeqSet(moves))
       /\ SeqSet(moves) \subseteq trumps
       /\ IF played # {} /\ over # {} THEN SeqSet(moves) = over
                                       ELSE SeqSet(moves) = trumps

\* a trump was played, the mover cannot follow and holds a trump that beats
\* it and one that does not
C2_Witness ==
    LET mine   == HandSet(state, state.player_to_move)
        trumps == SuitCards(mine, state.atout)
        played == SuitCards(TrickCards(state), state.atout)
    IN
    /\ exc = "none" /\ state.current_cards # <<>>
    /\ SuitCards(mine, LeadSuit(state)) = {}
    /\ played # {}
    /\ \E c \in trumps : value(c, state.atout) > MaxValue(played, state.atout)
    /\ \E c \in trumps : value(c, state.atout) <= MaxValue(played, state.atout)
    /\ Len(get_moves(state)) < Cardinality(trumps)

\* the case of the spec's example: a trump was played and none of the
\* mover's trumps beats it, so all of them are legal
C2_NoneQualifies ==
    LET mine   == HandSet(state, state.player_to_move)
        trumps == SuitCards(mine, state.atout)
        played == SuitCards(TrickCards(state), state.atout)
    IN
    /\ exc = "none" /\ state.current_cards # <<>>
    /\ SuitCards(mine, LeadSuit(state)) = {}
    /\ played # {} /\ Cardinality(trumps) > 1
    /\ \A c \in trumps : value(c, state.atout) <= MaxValue(played, state.atout)
    /\ SeqSet(get_moves(state)) = trumps

\* ---- C3: trick resolution.  When the fourth card of a trick has been
\* played, the player to move is the winner: a player whose card is a trump
\* of maximal value among the trumps of the trick or, if the trick holds no
\* trump, a card of the lead suit of maximal value among those; a card that
\* is neither trump nor of the lead suit does not win.
C3_TrickWinner ==
    TrickDone =>
      LET atout  == pre.atout
          lead   == suit_of(DoneTrick[1][2])
          trumps == SuitCards(DoneCards, atout)
          suited == SuitCards(DoneCards, lead)
      IN  \E i \in 1 .. 4 :
             /\ DoneTrick[i][1] = state.player_to_move
             /\ IF trumps # {}
                THEN /\ DoneTrick[i][2] \in trumps
                     /\ value(DoneTrick[i][2], atout) = MaxValue(trumps, atout)
                ELSE /\ DoneTrick[i][2] \in suited
                     /\ value(DoneTrick[i][2], atout) = MaxValue(suited, atout)

\* the example of the spec: trump hearts, 7D led by P0, AD by P1, JH by P2,
\* 9H by P3, and P2 has won
C3_Witness ==
    /\ TrickDone /\ pre.atout = 2
    /\ DoneTrick = << <<0, Card(7, 1)>>, <<1, Card(14, 1)>>,
                      <<2, Card(11, 2)>>, <<3, Card(9, 2)>> >>
    /\ state.player_to_move = 2

\* ---- C4: no ties.  In every completed trick the cards compared for the
\* win (the trumps played or, without a trump, the cards of the lead suit)
\* have pairwise distinct values.
C4_NoTies ==
    TrickDone =>
      LET atout    == pre.atout
          trumps   == SuitCards(DoneCards, atout)
          compared == IF trumps # {} THEN trumps
                      ELSE SuitCards(DoneCards, suit_of(DoneTrick[1][2]))
      IN  \A c, d \in compared : c # d => value(c, atout) # value(d, atout)

\* ---- C5: trick scoring.  A move that completes a trick adds the values of
\* its four cards, plus 10 when it emptied the winner's hand, to the round
\* score of the winner's team and leaves the other team's score alone; any
\* other move changes no score; no score ever decreases.
C5_TrickScore ==
    Moved =>
      /\ IF Len(pre.current_cards) = 3
         THEN LET w   == state.player_to_move
                  pts == SumSeq([i \in 1 .. 4 |-> value(DoneTrick[i][2], pre.atout)])
                           + (IF state.player_hands[w] = <<>> THEN 10 ELSE 0)
              IN  /\ state.current_scores[(w % 2) + 1] = pre.current_scores[(w % 2) + 1] + pts
                  /\ state.current_scores[((w + 1) % 2) + 1] = pre.current_scores[((w + 1) % 2) + 1]
         ELSE state.current_scores = pre.current_scores
      /\ \A k \in 1 .. 2 : state.current_scores[k] >= pre.current_scores[k]

\* the last trick of a round was scored, with points in it, for team 1
\* while team 0 already had points
C5_Witness ==
    /\ TrickDone
    /\ state.player_hands[state.player_to_move] = <<>>
    /\ state.player_to_move % 2 = 1
    /\ state.current_scores[2] > pre.current_scores[2] + 10
    /\ state.current_scores[1] > 0

\* ---- C6: round total.  The two round scores add up to the value of the
\* cards of the completed tricks, plus 10 once the last trick is done; at
\* the end of the round (all hands empty) that is 162.
PlayedOut(st) ==
    {c \in 0 .. (NumRanks * 4 - 1) :
        c \notin TrickCards(st) /\ \A p \in Players : c \notin HandSet(st, p)}

RECURSIVE SumValues(_, _)
SumValues(cards, atout) ==
    IF cards = {} THEN 0
    ELSE LET c == CHOOSE x \in cards : TRUE
         IN  value(c, atout) + SumValues(cards \ {c}, atout)

RoundOver(st) == \A p \in Players : st.player_hands[p] = <<>>

C6_RoundTotal ==
    exc = "none" =>
      /\ state.current_scores[1] + state.current_scores[2]
            = SumValues(PlayedOut(state), state.atout)
                + (IF RoundOver(state) /\ state.current_cards = <<>> THEN 10 ELSE 0)
      /\ RoundOver(state) => state.current_scores[1] + state.current_scores[2] = 162

C6_Witness ==
    /\ Moved /\ RoundOver(state)
    /\ state.current_scores[1] > 0 /\ state.current_scores[2] > 0
    /\ state.current_scores[1] + state.current_scores[2] = 162

\* ---- C7: card conservation.  The cards of the four hands and of the
\* current trick are deck cards and pairwise distinct; the hands hold 32
\* cards at the start of the round; a do_move takes exactly the played card
\* out of the mover's hand and leaves the other hands alone.
C7_Conservation ==
    exc = "none" =>
      /\ \A p \in Players : HandSet(state, p) \subseteq 0 .. (NumRanks * 4 - 1)
      /\ TrickCards(state) \subseteq 0 .. (NumRanks * 4 - 1)
      /\ Cardinality(UNION {HandSet(state, p) : p \in Players} \cup TrickCards(state))
            = CardsLeft(state) + Len(state.current_cards)
      /\ last_move = -1 => CardsLeft(state) = 32
      /\ Moved =>
            /\ CardsLeft(state) = CardsLeft(pre) - 1
            /\ last_move \in HandSet(pre, pre.player_to_move)
            /\ HandSet(state, pre.player_to_move)
                   = HandSet(pre, pre.player_to_move) \ {last_move}
            /\ \A p \in Players \ {pre.player_to_move} :
                   state.player_hands[p] = pre.player_hands[p]

\* a card was played into a trick that is still open
C7_Witness ==
    /\ Moved /\ Len(state.current_cards) = 2
    /\ CardsLeft(state) = 18

\* ---- C8: determinization keeps the information set.  The state returned
\* by clone_and_randomize(observer) has the observer's hand, the trick, the
\* trump, the player to move and the scores of the original; every other
\* player holds as many cards as before; and the cards of the other players
\* are, counted with multiplicity, the same as before.
Count(s, x) == Cardinality({i \in 1 .. Len(s) : s[i] = x})

C8_Determinize ==
    det # <<>> =>
      LET o == det[1].observer
          d == det[1].st
      IN  /\ d.player_hands[o] = state.player_hands[o]
          /\ d.current_cards = state.current_cards
          /\ d.atout = state.atout
          /\ d.player_to_move = state.player_to_move
          /\ d.current_scores = state.current_scores
          /\ d.scores = state.scores
          /\ \A p \in Players : Len(d.player_hands[p]) = Len(state.player_hands[p])
          /\ LET before == UnseenFrom(state, o, 0)
                  after  == UnseenFrom(d, o, 0)
             IN  \A c \in SeqSet(before) \cup SeqSet(after) :
                    Count(after, c) = Count(before, c)

\* a determinization that moved cards between two players, with a trick open
C8_Witness ==
    /\ det # <<>>
    /\ state.current_cards # <<>>
    /\ \E p \in Players \ {det[1].observer} :
          /\ Len(state.player_hands[p]) >= 1
          /\ HandSet(det[1].st, p) \cap HandSet(state, p) = {}

\* ---- C9 as claimed: a player other than the observer who has played, in
\* the current trick, a card that is not of the lead suit is never given a
\* card of the lead suit by clone_and_randomize.
C9_VoidRespected ==
    det # <<>> =>
      \A i \in 1 .. Len(state.current_cards) :
         LET p == state.current_cards[i][1] IN
         (p # det[1].observer /\ suit_of(state.current_cards[i][2]) # LeadSuit(state))
         => SuitCards(HandSet(det[1].st, p), LeadSuit(state)) = {}

\* ---- C9 as amended: the state returned by clone_and_randomize(observer)
\* agrees with the cards the observer sees, not with what the play implies: the other
\* players hold only cards that are neither in the observer's hand nor in
\* the current trick nor in a completed trick, and each of those unseen
\* cards is held by exactly one of them.
C9_UnseenOnly ==
    det # <<>> =>
      LET o == det[1].observer
          d == det[1].st
          seen == HandSet(state, o) \cup TrickCards(state) \cup PlayedOut(state)
      IN  /\ \A p \in Players \ {o} : HandSet(d, p) \cap seen = {}
          /\ \A c \in (0 .. (NumRanks * 4 - 1)) \ seen :
                 Cardinality({p \in Players \ {o} : c \in HandSet(d, p)}) = 1

\* a player who showed a void in the lead suit is dealt a card of that suit
C9_Witness ==
    /\ det # <<>>
    /\ \E i \in 1 .. Len(state.current_cards) :
         LET p == state.current_cards[i][1] IN
         /\ p # det[1].observer
         /\ suit_of(state.current_cards[i][2]) # LeadSuit(state)
         /\ SuitCards(HandSet(det[1].st, p), LeadSuit(state)) # {}

\* ---- C10: visit counts.  After each iteration of ismcts, the k-th
\* included, the root has k visits and every other node of the tree has at
\* most as many visits as avails; when ismcts returns, after itermax >= 1
\* iterations, the root has itermax visits.
C10_RootVisits ==
    pc \in {"iter", "move"} =>
      /\ tree[1].visits = iter
      /\ pc = "move" => (iter = itermax /\ itermax >= 1 /\ tree[1].visits = itermax)
      /\ \A n \in 2 .. Len(tree) : tree[n].visits <= tree[n].avails

\* ismcts has returned after three or more iterations, one of them went
\* through ucb_select_child at a root with two legal children, and one of
\* these was available more often than it was visited
C10_Witness ==
    /\ pc = "move" /\ exc = "none"
    /\ itermax >= 3 /\ tree[1].visits = itermax
    /\ Len(tree[1].child_nodes) >= 2
    /\ \E n \in 2 .. Len(tree) :
          tree[n].visits >= 1 /\ tree[n].avails > tree[n].visits

\* ---- C11: robust child.  The move that ismcts returns is the move of a
\* root child that no other root child exceeds in visits, whatever the wins
\* of the children are.
C11_RobustChild ==
    (pc = "move" /\ exc = "none") =>
      \E c \in SeqSet(tree[1].child_nodes) :
         /\ tree[c].move = best
         /\ \A d \in SeqSet(tree[1].child_nodes) : tree[d].visits <= tree[c].visits

\* ismcts has returned the move of the child with the most visits while
\* another root child has a better ratio of wins to visits
C11_Witness ==
    /\ pc = "move" /\ exc = "none"
    /\ \E c, d \in SeqSet(tree[1].child_nodes) :
          /\ tree[c].move = best
          /\ tree[c].visits > tree[d].visits
          /\ tree[d].wins * tree[c].visits > tree[c].wins * tree[d].visits

\* ---- C13: the root state is not modified.  No step of ismcts, from the
\* call to the return, changes the state it was called with: hands, trick,
\* player to move, trump, round counter and scores stay as they are.
C13_RootUnchanged ==
    [][pc' \in {"iter", "select", "simulate", "move"} => state' = state]_vars

\* ismcts has returned after iterations that played cards on their clones
\* (the tree has grown below the root's children) from a root state with an
\* open trick and cards in hand
C13_Witness ==
    /\ pc = "move" /\ exc = "none"
    /\ iter >= 2
    /\ \E n \in 2 .. Len(tree) : tree[n].parentNode # 1
    /\ state.current_cards # <<>>
    /\ state.player_hands[state.player_to_move] # <<>>

\* ---- C14: do_move rejects a card that is not in the hand.  A do_move
\* whose card is not in the hand of the player to move ends with an error.
C14_NotInHandFails ==
    (last_move # -1 /\ last_move \notin HandSet(pre, pre.player_to_move))
       => exc # "none"

\* do_move of the single file has raised ValueError for a card that another
\* player holds, with a trick open
C14_Witness ==
    /\ variant = "mono"
    /\ exc = "ValueError"
    /\ pre.current_cards # <<>>
    /\ last_move \notin HandSet(pre, pre.player_to_move)
    /\ \E p \in Players : last_move \in HandSet(pre, p)

\* do_move of the package has raised for a card that is not in the hand
C14_WitnessPackage ==
    /\ variant = "package"
    /\ exc = "AttributeError"
    /\ last_move \notin HandSet(pre, pre.player_to_move)

\* ---- C15: termination.  A call of ismcts on a non-terminal root state
\* runs its iterations to the end: no iteration is cut short by an error, the
\* loop counter stays within itermax, and the simulate loop is left only
\* when all four hands are empty.
C15_RunsToReturn ==
    pc \in {"iter", "select", "simulate"} =>
      /\ exc = "none"
      /\ iter <= itermax
      /\ (pc = "simulate" /\ legal_moves(variant, search_state) = <<>>)
            => RoundOver(search_state)

\* ismcts of the package has been called on the dealt state and its first
\* iteration has raised in the expansion
C15_PackageRaises ==
    /\ variant = "package"
    /\ pc = "simulate" /\ iter = 0 /\ itermax >= 1
    /\ exc = "AttributeError"

\* the measure that every step of a call decreases: iterations to go, then
\* the phase of the iteration, then the cards left to play in the clone
Rank(p, k, st) ==
    IF p = "move" THEN 0
    ELSE (itermax - k) * 200
           + (IF p = "iter" THEN 150
              ELSE IF p = "select" THEN 50 + CardsLeft(st)
              ELSE CardsLeft(st))

\* every step of ismcts that raises no error decreases the measure, so the
\* select loop, the simulate loop and the for loop end
C15_Progress ==
    [][(pc \in {"iter", "select", "simulate"} /\ exc' = "none")
          => Rank(pc', iter', search_state') < Rank(pc, iter, search_state)]_vars

\* ---- C16: no illegal move in the search.  Every card that an iteration
\* of ismcts passes to do_move, in the select, the expand or the simulate
\* phase, is at that moment one of get_moves() of the determinized state it
\* is applied to, and so a card of the hand of the player to move.
C16_LegalInSearch ==
    applied # <<>> =>
      LET m  == applied[1].move
          st == applied[1].to
      IN  /\ InSeq(m, legal_moves(variant, st))
          /\ m \in HandSet(st, st.player_to_move)

\* the select phase has passed the move of a tree node to do_move while the
\* mover held a card that get_moves() did not allow
C16_Witness ==
    /\ pc = "select" /\ exc = "none"
    /\ applied # <<>>
    /\ tree[node].move = applied[1].move
    /\ \E c \in HandSet(applied[1].to, applied[1].to.player_to_move) :
          ~InSeq(c, legal_moves(variant, applied[1].to))

\* ---- C17: selection is well defined.  Whenever the select loop calls
\* ucb_select_child (the state is not terminal and the node has no untried
\* move), at least one child of the node is legal, and every legal child has
\* been visited at least once and has avails of at least 1, so that the
\* quotients and the logarithm of the score are defined.
C17_SelectionDefined ==
    (pc = "select" /\ exc = "none" /\ fully_expanded(tree, node, search_state, variant)) =>
      LET lc == legal_children(tree, node, legal_moves(variant, search_state))
      IN  /\ lc # <<>>
          /\ \A c \in SeqSet(lc) : tree[c].visits >= 1 /\ tree[c].avails >= 1

\* ucb_select_child is about to choose among two legal children or more
C17_Witness ==
    /\ pc = "select" /\ exc = "none"
    /\ fully_expanded(tree, node, search_state, variant)
    /\ Len(legal_children(tree, node, legal_moves(variant, search_state))) >= 2

\* ---- C18 as stated: avails >= visits >= 0 for every node of the search
\* tree, the root included, at all times during and after a search.
C18_EveryNode ==
    \A n \in 1 .. Len(tree) : tree[n].avails >= tree[n].visits /\ tree[n].visits >= 0

\* ---- C18, amended: avails >= visits >= 0 for every node other than the
\* root, at all times during and after a search; the root keeps the avails
\* of 1 it is created with while its visits count the iterations.
C18_EveryChild ==
    /\ \A n \in 2 .. Len(tree) : tree[n].avails >= tree[n].visits /\ tree[n].visits >= 0
    /\ tree # <<>> => tree[1].avails = 1 /\ tree[1].visits >= 0

\* a search has returned with a child that was available more often than
\* visited, a child visited twice, and a root visited more often than its
\* avails
C18_Witness ==
    /\ pc = "move" /\ exc = "none"
    /\ \E n \in 2 .. Len(tree) : tree[n].avails > tree[n].visits
    /\ \E n \in 2 .. Len(tree) : tree[n].visits >= 2
    /\ tree[1].visits > tree[1].avails

\* ---- C19: turn order.  Between calls of do_move the current trick holds
\* 0 to 3 plays; the plays are by distinct players in consecutive seating
\* order; when the trick is not empty the player to move is the seat after
\* the last play; and after the fourth play of a trick the trick is empty
\* again and the player to move is the winner of the trick.
C19_TurnOrder ==
    exc = "none" =>
      LET trick == state.current_cards IN
      /\ Len(trick) \in 0 .. 3
      /\ \A a \in 1 .. Len(trick) : \A b \in 1 .. Len(trick) :
            a # b => trick[a][1] # trick[b][1]
      /\ \A a \in 1 .. Len(trick) - 1 :
            trick[a + 1][1] = (trick[a][1] + 1) % number_of_players
      /\ trick # <<>> =>
            state.player_to_move = (trick[Len(trick)][1] + 1) % number_of_players
      /\ (last_move # -1 /\ Len(pre.current_cards) = 3) =>
            /\ trick = <<>>
            /\ state.player_to_move =
                 get_trick_winner([pre EXCEPT !.current_cards =
                                      Append(@, <<pre.player_to_move, last_move>>)])

\* the fourth play of a trick has just been made, and its winner is neither
\* the player who made it nor the player who led the trick
C19_Witness ==
    /\ exc = "none" /\ last_move # -1
    /\ Len(pre.current_cards) = 3
    /\ state.current_cards = <<>>
    /\ state.player_to_move # pre.player_to_move
    /\ state.player_to_move # pre.current_cards[1][1]

\* a trick with three plays is on the table, led by a player other than the
\* first of the seating
C19_WitnessOpen ==
    /\ exc = "none"
    /\ Len(state.current_cards) = 3
    /\ state.current_cards[1][1] # 0

\* the nodes from n up to the root, following parentNode
RECURSIVE path_to_root(_, _)
path_to_root(t, n) == IF n = 0 THEN {} ELSE {n} \cup path_to_root(t, t[n].parentNode)

\* ---- C20: backpropagation.  The step that ends an iteration increments
\* visits by 1 on exactly the nodes of the path from the expanded (or deepest
\* selected) node up to the root; each of them except the root gets the
\* terminal state's score of the team of its player_just_moved added to wins;
\* the root's wins stay 0; the nodes off the path, and every other field of
\* the nodes on it, are unchanged.
C20_Backpropagation ==
    [][(pc = "simulate" /\ pc' = "iter") =>
        /\ Len(tree') = Len(tree)
        /\ \A n \in 1 .. Len(tree) :
             IF n \in path_to_root(tree, node)
             THEN /\ tree'[n].visits = tree[n].visits + 1
                  /\ tree'[n].wins =
                       IF n = 1 THEN 0
                       ELSE tree[n].wins
                            + search_state.current_scores[(tree[n].player_just_moved % 2) + 1]
                  /\ [tree'[n] EXCEPT !.visits = 0, !.wins = 0]
                       = [tree[n] EXCEPT !.visits = 0, !.wins = 0]
             ELSE tree'[n] = tree[n]]_vars

\* an iteration has ended whose path had three nodes or more, got a positive
\* result at its last node, and left another node of the tree aside
C20_Witness ==
    /\ pc = "iter" /\ exc = "none" /\ iter >= 1
    /\ LET n == Len(tree) IN
       /\ tree[n].parentNode > 1
       /\ tree[n].visits = 1
       /\ tree[n].wins > 0
       /\ \E c \in 2 .. Len(tree) : c \notin path_to_root(tree, n) /\ tree[c].visits >= 1

C22_TreeShape ==
    [][/\ \A n \in 1 .. Len(tree') :
            \A a \in 1 .. Len(tree'[n].child_nodes) : \A b \in 1 .. Len(tree'[n].child_nodes) :
               a # b => tree'[tree'[n].child_nodes[a]].move # tree'[tree'[n].child_nodes[b]].move
       /\ Len(tree') <= 1 + iter' + (IF pc' = "simulate" THEN 1 ELSE 0)
       /\ (tree # <<>> /\ pc' # "iter") => Len(tree') <= Len(tree) + 1
       /\ (pc \in {"select", "simulate"} /\ Len(tree') # Len(tree)) =>
            /\ pc = "select" /\ pc' = "simulate"
            /\ Len(tree') = Len(tree) + 1
            /\ node' = Len(tree')
            /\ tree'[node'].parentNode = node
            /\ tree'[node].child_nodes = Append(tree[node].child_nodes, node')
            /\ InSeq(tree'[node'].move, legal_moves(variant, search_state))
            /\ \A c \in 1 .. Len(tree) :
                  tree[c].parentNode = node => tree[c].move # tree'[node'].move
            /\ tree'[node'].player_just_moved = search_state.player_to_move]_vars

\* the third iteration of a search has added a second child to a node
C22_Witness ==
    /\ pc = "simulate" /\ exc = "none"
    /\ iter = 2 /\ Len(tree) = 4
    /\ node = Len(tree)
    /\ Len(tree[tree[node].parentNode].child_nodes) >= 2

\* get_moves() of either program is empty exactly when all hands are empty,
\* and otherwise a non-empty part of the mover's hand; the mover has a card
\* whenever anybody has
terminal_detection(st) ==
    /\ \A moves \in {get_moves(st), get_moves_mono(st)} :
          /\ moves = <<>> <=> RoundOver(st)
          /\ SeqSet(moves) \subseteq HandSet(st, st.player_to_move)
    /\ st.player_hands[st.player_to_move] = <<>> => RoundOver(st)

\* ---- C23: terminal detection is sound.  In every state reached from a
\* deal by legal moves, and in every determinization of such a state,
\* get_moves() returns an empty list if and only if all four hands are empty;
\* the player to move never has an empty hand while another player still
\* holds a card; and get_moves() is otherwise a non-empty subset of the
\* mover's hand.
C23_TerminalDetection ==
    exc = "none" =>
      /\ terminal_detection(state)
      /\ det # <<>> => terminal_detection(det[1].st)

\* a determinization in which the mover, with a trick on the table, can
\* neither follow suit nor trump, while another player's hand is empty
C23_Witness ==
    /\ exc = "none" /\ det # <<>>
    /\ LET d == det[1].st
           hand == d.player_hands[d.player_to_move]
       IN  /\ d.current_cards # <<>>
           /\ hand # <<>>
           /\ \A k \in 1 .. Len(hand) :
                 /\ suit_of(hand[k]) # suit_of(d.current_cards[1][2])
                 /\ suit_of(hand[k]) # d.atout
           /\ \E p \in Players : d.player_hands[p] = <<>>

\* the last card of a round has been played
C23_WitnessTerminal ==
    /\ exc = "none" /\ last_move # -1
    /\ RoundOver(state)
    /\ get_moves(state) = <<>> /\ get_moves_mono(state) = <<>>

\* ---- C24: the mover along a tree path does not depend on the
\* determinization.  Whenever an iteration descends into an existing node
\* below the root, the player who plays the node's move in the determinized
\* state is the player_just_moved recorded when the node was created, so
\* that wins are accumulated for the player who made the move.
C24_MoverRecorded ==
    (pc = "select" /\ applied # <<>>) =>
      /\ node > 1
      /\ tree[node].move = applied[1].move
      /\ tree[node].player_just_moved = applied[1].to.player_to_move

\* the select loop has descended into a node two levels below the root,
\* created in an earlier iteration for a move of a player other than the
\* root's player to move
C24_Witness ==
    /\ pc = "select" /\ exc = "none" /\ applied # <<>>
    /\ tree[node].parentNode > 1
    /\ tree[node].player_just_moved # state.player_to_move
    /\ tree[node].visits >= 1

\* ---- C25: the move of the search is legal.  For a root state that is not
\* terminal, every itermax >= 1 and every outcome of the random draws, the
\* card ismcts returns is one of rootstate.get_moves(): a legal move of the
\* root's player to move in the real state, not only in a determinization.
C25_ReturnsLegalMove ==
    (pc = "move" /\ exc = "none") =>
      /\ InSeq(best, legal_moves(variant, state))
      /\ best \in HandSet(state, state.player_to_move)

\* a search of two iterations or more, which went below the root's children,
\* has returned a card for a player who holds cards that are not legal
C25_Witness ==
    /\ pc = "move" /\ exc = "none"
    /\ itermax >= 2
    /\ \E n \in 2 .. Len(tree) : tree[n].parentNode > 1
    /\ \E c \in HandSet(state, state.player_to_move) :
          ~InSeq(c, legal_moves(variant, state))

\* ---- C26: a failed do_move leaves the state unchanged.  After do_move has
\* failed because the card is not in the hand of the player to move, the
\* current trick, all hands, the player to move and the round scores are the
\* same as before the call.
C26_FailureLeavesState ==
    (last_move # -1 /\ last_move \notin HandSet(pre, pre.player_to_move) /\ exc # "none") =>
      /\ state.current_cards = pre.current_cards
      /\ state.player_hands = pre.player_hands
      /\ state.player_to_move = pre.player_to_move
      /\ state.current_scores = pre.current_scores

\* what the failed call of the single file leaves behind: the card is in the
\* trick, under the name of the player to move, and nothing else has changed
C26_CardLeftInTrick ==
    (variant = "mono" /\ last_move # -1 /\ last_move \notin HandSet(pre, pre.player_to_move)) =>
      /\ exc = "ValueError"
      /\ state.current_cards = Append(pre.current_cards, <<pre.player_to_move, last_move>>)
      /\ state.player_hands = pre.player_hands
      /\ state.player_to_move = pre.player_to_move
      /\ state.current_scores = pre.current_scores

\* the failed call of the package changes nothing
C26_PackageUnchanged ==
    (variant = "package" /\ last_move # -1 /\ exc # "none") => state = pre

\* a failed call of the single file has put a fourth play into the trick
C26_FourInTrick ==
    /\ variant = "mono" /\ exc = "ValueError"
    /\ Len(state.current_cards) = 4

\* ---- C27: do_move of the package completes.  In the package, do_move
\* called with a card of get_moves() on a state made by the constructor
\* raises no error: the move-history attribute it appends to exists, and the
\* card is then played (it leaves the mover's hand).
C27_PackageDoMoveCompletes ==
    (variant = "package" /\ last_move # -1 /\ InSeq(last_move, get_moves(pre))) =>
      /\ exc = "none"
      /\ last_move \notin HandSet(state, pre.player_to_move)

\* the same for a state made by clone(): the do_move calls that ismcts makes
\* on its determinized clone raise no error
C27_CloneDoMoveCompletes ==
    (variant = "package" /\ applied # <<>>) => exc = "none"

\* what the package does: every do_move with a legal card raises
\* AttributeError and leaves the state as it was
C27_PackageAlwaysRaises ==
    (variant = "package" /\ last_move # -1 /\ InSeq(last_move, get_moves(pre))) =>
      /\ exc = "AttributeError"
      /\ state = pre

====
